---- MODULE Spec2Model ----
(***************************************************************************)
(* Model of the PDF worker of document-tools-join                          *)
(* (src/src/workers/mupdf.worker.ts): mergeDocuments and rotateDocument.   *)
(*                                                                         *)
(* Indices (docIndex, originalPageIndex, newPageIndex) keep the 0-based    *)
(* values of the code; a TLA+ sequence is indexed from 1, so the page at   *)
(* index n of a document is pages[n + 1].                                  *)
(*                                                                         *)
(* The PDF toolkit is modelled by what the worker relies on: a document is *)
(* a list of pages, a page has a content stream, a box, a rotation, a text *)
(* and an annotation array; a link annotation is a rectangle, a URI and,    *)
(* once written by insertLink, the page object it leads to.                *)
(*                                                                         *)
(* Spec is the worker serving calls: a first call on files of the caller,  *)
(* then possibly a second call on the buffer the first one returned.       *)
(* TimeoutSpec is withTimeout on its own, given any promise.               *)
(* ConcurrentSpec is the worker serving several calls at once: each runs   *)
(* from one await to the next, and the others run in between.              *)
(***************************************************************************)
EXTENDS Integers, Sequences, FiniteSets, TLC

\* Bounds of the model.
MaxDocs == 2
MaxPages == 3
MaxAnnots == 2
MaxTime == 4
MaxCalls == 2

\* The size of a request with annotations: its pages and its annotations
\* together.
MaxSize == MaxPages + MaxAnnots - 1

\* The page createBlankDocument() puts in a new document (A4, in points).
BlankWidth == 595
BlankHeight == 842

VARIABLES
    pc,             \* position of the call in flight
    op,             \* "none", "merge" or "rotate"
    documents,      \* mergeDocuments' argument
    pdfBuffer,      \* rotateDocument's argument
    mergedDoc,      \* the output document of mergeDocuments
    pageMappings,   \* PageMapping[]
    internalLinks,  \* InternalLink[]
    docIndex,       \* outer loop variable of mergeDocuments
    i,              \* page loop variable (both operations)
    k,              \* position of the resolution loop in internalLinks
    srcState,       \* per source: "unopened", "open" or "closed"
    doc,            \* the document rotateDocument opened
    result,         \* <<buffer>> once the call returned, <<>> before
    error,          \* message of the error the call threw, "" if none
    faults,         \* toolkit primitives that threw during the call
    destroyed,      \* the handles destroy() was called on, in call order
    warnings,       \* what console.warn was called for, in call order
    prev,           \* the call whose result feeds this one: "none" if none
    slot,           \* index in documents of the buffer an earlier call made
    guard,          \* withTimeout: the timer and the promise it returned
    promise,        \* withTimeout: the promise it was given
    jobs,           \* withTimeout: promise reactions waiting to run
    now,            \* withTimeout: milliseconds since the call
    timeoutMs,      \* withTimeout: its second argument
    calls,          \* interleaved calls: operation, argument, position, result
    frames          \* interleaved calls: the locals of each invocation

\* What a call of the worker leaves alone of withTimeout's own state.
timerVars == <<promise, jobs, now, timeoutMs>>

\* What tells a second call from a first one.
chainVars == <<prev, slot>>

\* The calls in flight together on one worker.
callVars == <<calls, frames>>

vars == <<pc, op, documents, pdfBuffer, mergedDoc, pageMappings, internalLinks,
          docIndex, i, k, srcState, doc, result, error, faults, destroyed,
          warnings, prev, slot, guard, promise, jobs, now, timeoutMs,
          calls, frames>>

----------------------------------------------------------------------------
\* URIs.  "#page=N..." is [kind |-> "page", page |-> N].

NoURI == [kind |-> "none", page |-> 0]
ExternalURI == [kind |-> "https", page |-> 0]
NamedURI == [kind |-> "nameddest", page |-> 0]
PageURI(t) == [kind |-> "page", page |-> t]

\* link.isExternal()
IsExternal(uri) == uri.kind = "https"

\* uri && uri.includes('#page=') && uri.match(/#page=(\d+)/)
HasPageRef(uri) == uri.kind = "page"

\* parseInt(pageMatch[1])
ParsePageRef(uri) == uri.page

\* A replacement that leaves the URI as it is.
ReplacePageRef_Keep(uri, newPageRef) == uri

\* originalURI.replace(/#page=\d+/, `#page=${newPageRef}`)
ReplacePageRef(uri, newPageRef) ==
    IF uri.kind = "page" THEN [uri EXCEPT !.page = newPageRef] ELSE uri

----------------------------------------------------------------------------
\* Source data: annotations, pages, documents.

\* link.getBounds(): the rectangle of entry j of the Annots array of page g
\* of the request; no two entries of a request have the same.
Rect(g, j) == <<10 * j, 100 * g + 20 * j, 10 * j + 50, 100 * g + 20 * j + 15>>

\* The destination of a link that is bound to no page object: every link of a
\* source is modelled by the URI getURI() returns for it.
NoDest == <<-2, -2>>

LinkAnnot(uri, g, j) ==
    [subtype |-> "Link", indirect |-> TRUE, malformed |-> FALSE,
     rect |-> Rect(g, j), uri |-> uri, dest |-> NoDest]

WidgetAnnot(indirect, malformed, g, j) ==
    [subtype |-> "Widget", indirect |-> indirect, malformed |-> malformed,
     rect |-> Rect(g, j), uri |-> NoURI, dest |-> NoDest]

\* An external link that cannot be copied: writing it to the destination
\* page throws.
BrokenLinkAnnot(g, j) == [LinkAnnot(ExternalURI, g, j) EXCEPT !.malformed = TRUE]

\* The kinds of entry a source page's Annots array is drawn from, on a page
\* of a source with pageCount pages: an internal link names a page of its
\* source (1..pageCount), or page 0 or the page just past the end (broken
\* references).
AnnotKinds(pageCount) ==
    {<<"ext", 0>>, <<"named", 0>>, <<"widget", 0>>, <<"direct", 0>>,
     <<"malformed", 0>>, <<"brokenlink", 0>>}
    \cup {<<"int", t>> : t \in 0..(pageCount + 1)}

MakeAnnot(kind, g, j) ==
    CASE kind[1] = "ext" -> LinkAnnot(ExternalURI, g, j)
      [] kind[1] = "named" -> LinkAnnot(NamedURI, g, j)
      [] kind[1] = "int" -> LinkAnnot(PageURI(kind[2]), g, j)
      [] kind[1] = "widget" -> WidgetAnnot(TRUE, FALSE, g, j)
      [] kind[1] = "direct" -> WidgetAnnot(FALSE, FALSE, g, j)
      [] kind[1] = "brokenlink" -> BrokenLinkAnnot(g, j)
      [] OTHER -> WidgetAnnot(TRUE, TRUE, g, j)

Boxes == {<<595, 842>>, <<400, 300>>}
MergeRotations == {0, 90}
Rotations == {0, 90, 180, 270}

DefaultShape == [box |-> <<595, 842>>, rot |-> 0, text |-> TRUE]
Shapes(rots) == [box : Boxes, rot : rots, text : {TRUE}]
TextShapes == [box : {<<595, 842>>}, rot : {0}, text : BOOLEAN]

BlankContent == <<-1, -1>>
BlankPage ==
    [content |-> BlankContent, box |-> <<BlankWidth, BlankHeight>>, rot |-> 0,
     text |-> FALSE, annots |-> <<>>]

InvalidBuffer == [valid |-> FALSE, pages |-> <<>>]

RECURSIVE SumSeq(_)
SumSeq(s) == IF s = <<>> THEN 0 ELSE s[1] + SumSeq(Tail(s))

\* Page counts per source; 0 stands for a buffer that is no PDF.
Structures(maxDocs) ==
    {s \in UNION {[1..n -> 0..MaxPages] : n \in 0..maxDocs} :
        SumSeq(s) =< MaxPages}

Offset(s, d) == SumSeq(SubSeq(s, 1, d - 1))

\* The Annots array of page g made of the given kinds of entry.
MakeAnnots(kinds, g) == [j \in 1..Len(kinds) |-> MakeAnnot(kinds[j], g, j)]

\* The request built from a structure, a shape per page and the kinds of
\* annotation of each page (pages numbered through the whole request).
Build(s, shape, kinds) ==
    [d \in 1..Len(s) |->
        IF s[d] = 0 THEN InvalidBuffer
        ELSE [valid |-> TRUE,
              pages |-> [j \in 1..s[d] |->
                  LET g == Offset(s, d) + j IN
                  [content |-> <<d - 1, j - 1>>,
                   box |-> shape[g].box, rot |-> shape[g].rot,
                   text |-> shape[g].text,
                   annots |-> MakeAnnots(kinds[g], g)]]]]

\* For each page of the request, the page count of its source.
RECURSIVE PageCounts(_)
PageCounts(s) ==
    IF s = <<>> THEN <<>>
    ELSE [j \in 1..s[1] |-> s[1]] \o PageCounts(Tail(s))

\* Requests without annotations: any mix of PDFs and buffers that are no
\* PDF, pages of any of the given shapes.
PlainRequests(maxDocs, shapes) ==
    UNION {{Build(s, shape, [g \in 1..SumSeq(s) |-> <<>>]) :
               shape \in [1..SumSeq(s) -> shapes]} :
           s \in Structures(maxDocs)}

\* Requests of PDFs only.
Compositions(maxDocs) == {s \in Structures(maxDocs) : \A d \in 1..Len(s) : s[d] > 0}

\* The numbers of annotations of the pages of a request of structure s: at
\* most MaxAnnots in all, and no more than the size of a request allows.
AnnotCounts(s) ==
    {c \in [1..SumSeq(s) -> 0..MaxAnnots] :
        SumSeq(c) =< MaxAnnots /\ SumSeq(s) + SumSeq(c) =< MaxSize}

\* The kinds of all the annotations of a request, page after page.
AnnotLists(c) == [1..SumSeq(c) -> AnnotKinds(MaxPages)]

\* The part of the list e that belongs to page g.
KindsOfPage(c, e, g) == SubSeq(e, Offset(c, g) + 1, Offset(c, g) + c[g])

\* Every entry is of a kind its page may carry.
KindsFit(s, c, e) ==
    LET counts == PageCounts(s) IN
    \A g \in 1..Len(c) : \A j \in 1..c[g] :
        KindsOfPage(c, e, g)[j] \in AnnotKinds(counts[g])

\* A request of PDFs with the given annotations, pages of the default shape.
AnnotatedRequest(s, c, e) ==
    Build(s, [g \in 1..SumSeq(s) |-> DefaultShape],
          [g \in 1..SumSeq(s) |-> KindsOfPage(c, e, g)])

PlainMergeRequests ==
    PlainRequests(MaxDocs, Shapes(MergeRotations))
    \cup PlainRequests(MaxDocs, TextShapes)

\* The request of a single file of n pages that is file p of the caller.
Alone(p, n) == [d \in 1..p |-> IF d = p THEN n ELSE 0]

\* The files rotateDocument is called on: any file of a request, or a
\* buffer that is no PDF.
PlainRotateRequests ==
    {InvalidBuffer} \cup
    UNION {UNION {{Build(Alone(p, n), shape, [g \in 1..n |-> <<>>])[p] :
                      shape \in [1..n -> Shapes(Rotations)]} :
                  n \in 1..MaxPages} :
           p \in 1..MaxDocs}

----------------------------------------------------------------------------
\* Toolkit primitives as mergeDocuments uses them.

\* mupdf.PDFDocument.createBlankDocument(): a new document holding one
\* blank page.
CreateBlankDocument == [state |-> "open", pages |-> <<BlankPage>>]

NoDocument == [state |-> "none", pages |-> <<>>]

\* graftPage(0, src, i) in place of graftPage(-1, src, i): the page is put
\* first.
GraftPage_Front(pages, srcPage) == <<[srcPage EXCEPT !.annots = <<>>]>> \o pages

\* A graft that does not copy the page's Rotate entry.
GraftPage_Unrotated(pages, srcPage) ==
    Append(pages, [srcPage EXCEPT !.annots = <<>>, !.rot = 0])

\* mergedDoc.graftPage(-1, src, i): the page's content, resources, boxes and
\* rotation are appended as the last page; its Annots array is not copied.
GraftPage(pages, srcPage) == Append(pages, [srcPage EXCEPT !.annots = <<>>])

\* A destination index that is always the first page.
DstPageIndex_First(pages) == 0

\* const dstPageIndex = mergedDoc.countPages() - 1
DstPageIndex(pages) == Len(pages) - 1

\* srcPage.getLinks(): the Link entries of the page's Annots array.
GetLinks(page) == SelectSeq(page.annots, LAMBDA a : a.subtype = "Link")

\* Metrics that take the far corner for the width and the height.
ToMetrics_Corner(bounds) ==
    [x |-> bounds[1], y |-> bounds[2], width |-> bounds[3], height |-> bounds[4]]

\* { x: bounds[0], y: bounds[1], width: bounds[2] - bounds[0],
\*   height: bounds[3] - bounds[1] }
ToMetrics(bounds) ==
    [x |-> bounds[1], y |-> bounds[2],
     width |-> bounds[3] - bounds[1], height |-> bounds[4] - bounds[2]]

\* The page object a URI names in a document with these pages, as insertLink
\* resolves it when the link is created: "#page=N" is page N of the document
\* as it is then; any other URI names no page.  A link inside a PDF file
\* holds its destination as a reference to the page object, not as a number.
LinkDest(pages, uri) ==
    IF HasPageRef(uri) /\ uri.page >= 1 /\ uri.page =< Len(pages)
    THEN pages[uri.page].content
    ELSE NoDest

\* dstPage.insertLink(metrics, uri): a new link annotation with rectangle
\* [x, y, x + width, y + height] and the destination the URI names is pushed
\* on the page's Annots array.
InsertLink(annots, metrics, uri, dest) ==
    Append(annots,
           [subtype |-> "Link", indirect |-> TRUE, malformed |-> FALSE,
            rect |-> <<metrics.x, metrics.y, metrics.x + metrics.width,
                       metrics.y + metrics.height>>,
            uri |-> uri, dest |-> dest])

\* link.getURI() on a link of a document with these pages, as a page number:
\* the position of the page object the link is bound to (0 when that page is
\* no longer in the document), or the number of the URI of a source link.
LinkPage(pages, a) ==
    IF a.dest = NoDest THEN a.uri.page
    ELSE IF \E n \in 1..Len(pages) : pages[n].content = a.dest
    THEN CHOOSE n \in 1..Len(pages) : pages[n].content = a.dest
    ELSE 0

\* dstPage.insertLink(...) throws on a link that cannot be copied.
InsertLinkThrows(link) == link.malformed

\* The loop over the links of one source page: an external link is written
\* to the destination page at once, an internal link with a page reference
\* is queued, any other link is passed over.  Nothing inside the loop
\* catches: a throw ends the loop, with the links written and queued so far.
RECURSIVE CopyLinks(_, _, _, _)
CopyLinks(links, dstAnnots, pending, dstPageIndex) ==
    IF links = <<>>
    THEN [annots |-> dstAnnots, pending |-> pending, threw |-> FALSE]
    ELSE LET link == Head(links) IN
         IF IsExternal(link.uri) /\ InsertLinkThrows(link)
         THEN [annots |-> dstAnnots, pending |-> pending, threw |-> TRUE]
         ELSE IF IsExternal(link.uri)
         THEN CopyLinks(Tail(links),
                        InsertLink(dstAnnots, ToMetrics(link.rect), link.uri,
                                   NoDest),
                        pending, dstPageIndex)
         ELSE IF HasPageRef(link.uri)
         THEN CopyLinks(Tail(links), dstAnnots,
                        Append(pending,
                               [newPageIndex |-> dstPageIndex,
                                bounds |-> link.rect,
                                originalURI |-> link.uri,
                                originalPageRef |-> ParsePageRef(link.uri)]),
                        dstPageIndex)
         ELSE CopyLinks(Tail(links), dstAnnots, pending, dstPageIndex)

\* A filter that does not look at the subtype.
KeepsAnnot_All(a) == a.indirect

\* The test of the annotation filter on one entry of Annots: an indirect
\* reference to a dictionary whose Subtype is not Link.
KeepsAnnot(a) == a.indirect /\ a.subtype # "Link"

\* mergedDoc.graftObject(annotRef) throws on a malformed reference; the
\* per-annotation catch then skips the entry.
GraftObjectThrows(a) == a.malformed

\* A loop over Annots inside a single try: the first throw ends it, and the
\* entries after it are not looked at.
FilterAnnots_Abort(annots) ==
    LET bad == {j \in 1..Len(annots) :
                   KeepsAnnot(annots[j]) /\ GraftObjectThrows(annots[j])}
        stop == IF bad = {} THEN Len(annots) + 1
                ELSE CHOOSE j \in bad : \A q \in bad : j =< q
    IN SelectSeq(SubSeq(annots, 1, stop - 1), KeepsAnnot)

\* The loop over Annots that fills filteredAnnots.
RECURSIVE FilterAnnots(_)
FilterAnnots(annots) ==
    IF annots = <<>> THEN <<>>
    ELSE LET a == Head(annots) IN
         IF KeepsAnnot(a) /\ ~GraftObjectThrows(a)
         THEN <<a>> \o FilterAnnots(Tail(annots))
         ELSE FilterAnnots(Tail(annots))

\* if (hasNonLinkAnnotations) dstPageObj.put('Annots', filteredAnnots)
PutAnnots(dstAnnots, filteredAnnots) ==
    IF Len(filteredAnnots) > 0 THEN filteredAnnots ELSE dstAnnots

\* The body of the page loop after the graft: links, then annotations.  A
\* throw of the link loop is caught by the catch of the page (line 169), past
\* the annotations.
CopyPageExtras(srcPage, dstPageIndex) ==
    LET copied == CopyLinks(GetLinks(srcPage), <<>>, <<>>, dstPageIndex) IN
    [annots |-> IF ~copied.threw /\ Len(srcPage.annots) > 0
                THEN PutAnnots(copied.annots, FilterAnnots(srcPage.annots))
                ELSE copied.annots,
     pending |-> copied.pending,
     threw |-> copied.threw]

\* Array.prototype.find: the first of the positions whose element passes
\* the test, 0 when there is none.
FirstIndex(positions) ==
    IF positions = {} THEN 0
    ELSE CHOOSE n \in positions : \A m \in positions : n =< m

\* pageMappings.find(mapping => mapping.newPageIndex === link.newPageIndex)
SourceMapping(mappings, link) ==
    FirstIndex({n \in 1..Len(mappings) :
                   mappings[n].newPageIndex = link.newPageIndex})

\* A lookup of the target page that does not look at docIndex.
TargetMapping_AnyDoc(mappings, sourceMapping, link) ==
    FirstIndex({n \in 1..Len(mappings) :
                   mappings[n].originalPageIndex = link.originalPageRef - 1})

\* pageMappings.find(mapping => mapping.docIndex === sourceMapping.docIndex
\*   && mapping.originalPageIndex === link.originalPageRef - 1)
TargetMapping(mappings, sourceMapping, link) ==
    FirstIndex({n \in 1..Len(mappings) :
                   /\ mappings[n].docIndex = sourceMapping.docIndex
                   /\ mappings[n].originalPageIndex = link.originalPageRef - 1})

\* A page reference that is not converted back to 1-indexed.
NewPageRef_ZeroBased(targetMapping) == targetMapping.newPageIndex

\* const newPageRef = targetMapping.newPageIndex + 1
NewPageRef(targetMapping) == targetMapping.newPageIndex + 1

\* A resolution that, finding no mapping for the target, takes the page
\* hosting the link for the target.
ResolveLink_Fallback(pages, mappings, link) ==
    LET sm == SourceMapping(mappings, link) IN
    IF sm = 0 THEN pages
    ELSE LET tm == TargetMapping(mappings, mappings[sm], link)
             newURI == ReplacePageRef(link.originalURI,
                           NewPageRef(mappings[IF tm = 0 THEN sm ELSE tm]))
             n == link.newPageIndex + 1
         IN [pages EXCEPT ![n].annots =
                InsertLink(@, ToMetrics(link.bounds), newURI,
                           LinkDest(pages, newURI))]

\* One iteration of the resolution loop: the pages of mergedDoc afterwards.
\* insertLink throws on a page number outside mergedDoc; the catch of the
\* loop then passes over the link.
ResolveLink(pages, mappings, link) ==
    LET sm == SourceMapping(mappings, link) IN
    IF sm = 0 THEN pages
    ELSE LET tm == TargetMapping(mappings, mappings[sm], link) IN
         IF tm = 0 THEN pages
         ELSE LET newURI == ReplacePageRef(link.originalURI,
                                           NewPageRef(mappings[tm]))
                  dest == LinkDest(pages, newURI)
                  n == link.newPageIndex + 1
              IN IF dest = NoDest THEN pages
                 ELSE [pages EXCEPT ![n].annots =
                          InsertLink(@, ToMetrics(link.bounds), newURI, dest)]

\* firstPage.getText().trim() === ""
HasNoText(page) == ~page.text

\* A deletion of the last page.
DeletePage0_Last(pages) == SubSeq(pages, 1, Len(pages) - 1)

\* mergedDoc.deletePage(0)
DeletePage0(pages) == Tail(pages)

\* A cleanup that never deletes the leading page.
RemoveBlank_Keep(pages) == pages

\* The cleanup when getText() returns.
RemoveBlank(pages) ==
    IF Len(pages) > 0 /\ HasNoText(pages[1]) THEN DeletePage0(pages) ELSE pages

\* A serialization that does not write the Rotate entry of the pages.
SaveToBuffer_Flat(pages) ==
    [valid |-> TRUE, pages |-> [n \in 1..Len(pages) |-> [pages[n] EXCEPT !.rot = 0]]]

\* saveToBuffer(...).asUint8Array(): the bytes of the document; opening them
\* gives its pages back.
SaveToBuffer(pages) == [valid |-> TRUE, pages |-> pages]

----------------------------------------------------------------------------
\* rotateDocument's primitives.

\* A rotation by twice the angle.
RotatePage_Half(page, r) == [page EXCEPT !.rot = (@ + 2 * r) % 360]

\* page.rotate(90): the page's Rotate entry advanced by r degrees.
RotatePage(page, r) == [page EXCEPT !.rot = (@ + r) % 360]

\* page.getBounds(): the box as displayed, sides swapped on a quarter or a
\* three-quarter turn.
Bounds(page) ==
    IF page.rot \in {90, 270} THEN <<page.box[2], page.box[1]>> ELSE page.box

----------------------------------------------------------------------------
\* withTimeout(promise, timeoutMs) and the promises it works with.

\* const OPEN_DOCUMENT_TIMEOUT = 10000
OPEN_DOCUMENT_TIMEOUT == 10000

\* A promise: pending, fulfilled with a value or rejected with an error.
Pending == [state |-> "pending", value |-> ""]
Fulfilled(v) == [state |-> "fulfilled", value |-> v]
Rejected(e) == [state |-> "rejected", value |-> e]

\* new Error(`Operation timed out after ${timeoutMs}ms`)
TimeoutError(ms) == "Operation timed out after " \o ToString(ms) \o "ms"

\* A promise that takes the outcome of every call of resolve or reject.
Settle_Last(p, outcome) == outcome

\* resolve(v) or reject(e) of new Promise((resolve, reject) => ...): the
\* first call settles the promise, a later call does nothing.
Settle(p, outcome) == IF p.state = "pending" THEN outcome ELSE p

\* No call of withTimeout yet.
NoGuard == [timer |-> "none", outer |-> Pending]

\* const timeoutId = setTimeout(..., timeoutMs): the timer is armed and the
\* promise withTimeout returns is pending.
Arm == [timer |-> "armed", outer |-> Pending]

\* clearTimeout(timeoutId): an armed timer is cancelled; nothing happens to
\* one that has fired.
ClearTimeout(timer) == IF timer = "armed" THEN "cleared" ELSE timer

\* .then((result) => { clearTimeout(timeoutId); resolve(result) })
OnFulfilled(g, value) ==
    [timer |-> ClearTimeout(g.timer), outer |-> Settle(g.outer, Fulfilled(value))]

\* .catch((error) => { clearTimeout(timeoutId); reject(error) })
OnRejected(g, err) ==
    [timer |-> ClearTimeout(g.timer), outer |-> Settle(g.outer, Rejected(err))]

\* The timer's callback: reject(new Error(...)).
OnTimeout(g, ms) ==
    [timer |-> "fired", outer |-> Settle(g.outer, Rejected(TimeoutError(ms)))]

\* The reaction jobs .then(...).catch(...) queues once the given promise is
\* settled: they run before any other task of the event loop.
Reactions(p) == IF p.state = "pending" THEN <<>> ELSE <<"then", "catch">>

\* One reaction job: the then-callback runs on a fulfilled promise, the
\* catch-callback on a rejected one; otherwise the outcome is passed on.
RunReaction(g, p, job) ==
    IF job = "then" /\ p.state = "fulfilled" THEN OnFulfilled(g, p.value)
    ELSE IF job = "catch" /\ p.state = "rejected" THEN OnRejected(g, p.value)
    ELSE g

\* withTimeout given a promise that is already settled, run until the
\* reaction jobs are done: no timer callback can run in between.
RECURSIVE RunReactions(_, _, _)
RunReactions(g, p, queue) ==
    IF queue = <<>> THEN g
    ELSE RunReactions(RunReaction(g, p, Head(queue)), p, Tail(queue))

----------------------------------------------------------------------------
\* An invocation of a method of the worker and its locals.

\* No call in this place yet.  Of a call: the method and its argument, where
\* it is suspended, what it returned, the timer of its guard, the state of
\* its document (mergedDoc or doc) and of the source it has open, and the
\* handles it has destroyed.
IdleCall ==
    [op |-> "none", input |-> <<>>, pc |-> "idle", docIndex |-> 0,
     result |-> <<>>, mixed |-> FALSE, timer |-> "none", main |-> "none",
     src |-> "none", destroyed |-> <<>>]

\* The locals of an invocation that hold documents and tables: the pages of
\* mergedDoc (of doc in rotateDocument and renderFirstPage), pageMappings,
\* internalLinks, and the buffer saveToBuffer returned.
NoFrame ==
    [pages |-> <<>>, pageMappings |-> <<>>, internalLinks |-> <<>>,
     saved |-> InvalidBuffer]

\* Locals kept on the worker instance: one place for every invocation.
Scope_Instance(c) == 1

\* mergedDoc, pageMappings and internalLinks are consts declared in the body
\* of the method: each invocation has its own.
Scope(c) == c

----------------------------------------------------------------------------
\* The state after the worker is constructed: no call in flight.

Init ==
    /\ pc = "idle"
    /\ op = "none"
    /\ documents = <<>>
    /\ pdfBuffer = InvalidBuffer
    /\ mergedDoc = NoDocument
    /\ pageMappings = <<>>
    /\ internalLinks = <<>>
    /\ docIndex = 0
    /\ i = 0
    /\ k = 0
    /\ srcState = <<>>
    /\ doc = NoDocument
    /\ result = <<>>
    /\ error = ""
    /\ faults = {}
    /\ destroyed = <<>>
    /\ warnings = <<>>
    /\ prev = "none"
    /\ slot = 0
    /\ guard = NoGuard
    /\ promise = Pending
    /\ jobs = <<>>
    /\ now = 0
    /\ timeoutMs = 0
    /\ calls = [c \in 1..MaxCalls |-> IdleCall]
    /\ frames = [c \in 1..MaxCalls |-> NoFrame]

\* mergeDocuments without the check of the empty list.
NoDocuments_Never(docs) == FALSE

\* if (documents.length === 0) throw ...
NoDocuments(docs) == Len(docs) = 0

\* The names of the document handles destroy() is called on.
MergedHandle == <<"mergedDoc", 0>>
SrcHandle(d) == <<"src", d>>
DocHandle == <<"doc", 0>>

\* A destroy() that leaves the handle open.
Destroy_Skip(d) == d

\* handle.destroy()
Destroy(d) == [d EXCEPT !.state = "destroyed"]

\* mergeDocuments(documents) up to the first open: the empty list is
\* rejected, otherwise the output document is created.  Every local of the
\* call starts afresh.
StartMerge(docs) ==
    /\ op' = "merge"
    /\ documents' = docs
    /\ srcState' = [d \in 1..Len(docs) |-> "unopened"]
    /\ IF NoDocuments(docs)
       THEN /\ pc' = "rejected"
            /\ error' = "No documents to merge"
            /\ mergedDoc' = NoDocument
       ELSE /\ pc' = "open"
            /\ error' = ""
            /\ mergedDoc' = CreateBlankDocument
    /\ pageMappings' = <<>>
    /\ internalLinks' = <<>>
    /\ docIndex' = 0
    /\ i' = 0
    /\ k' = 0
    /\ result' = <<>>
    /\ faults' = {}
    /\ destroyed' = <<>>
    /\ warnings' = <<>>
    /\ guard' = NoGuard
    /\ UNCHANGED <<pdfBuffer, doc>>
    /\ UNCHANGED timerVars
    /\ UNCHANGED callVars

\* A first call of mergeDocuments, on files of the caller.
MergeDocuments ==
    /\ pc = "idle"
    /\ \/ \E docs \in PlainMergeRequests : StartMerge(docs)
       \/ \E s \in Compositions(MaxDocs) : \E c \in AnnotCounts(s) :
            \E e \in AnnotLists(c) :
                KindsFit(s, c, e) /\ StartMerge(AnnotatedRequest(s, c, e))
    /\ UNCHANGED chainVars

\* The index, in a request, of the file a buffer was read from.
FileIndex(buf) == buf.pages[1].content[1]

\* No page of the buffer has an annotation.
Plain(buf) == \A n \in 1..Len(buf.pages) : buf.pages[n].annots = <<>>

\* A second call: the buffer rotateDocument returned is merged with other
\* files, in the place of the file it was made from (files without
\* annotations, upright pages).
MergeRotated ==
    /\ pc = "done"
    /\ op = "rotate"
    /\ prev = "none"
    /\ Plain(pdfBuffer)
    /\ \E s \in Compositions(MaxDocs) :
         LET p == FileIndex(pdfBuffer) + 1 IN
         /\ p =< Len(s)
         /\ s[p] = Len(pdfBuffer.pages)
         /\ \E shape \in [1..SumSeq(s) -> Shapes({0})] :
              LET docs == Build(s, shape, [g \in 1..SumSeq(s) |-> <<>>]) IN
              /\ \A j \in 1..s[p] : shape[Offset(s, p) + j] = DefaultShape
              /\ StartMerge([docs EXCEPT ![p] = result[1]])
              /\ slot' = p - 1
    /\ prev' = "rotate"

\* The finally block on a throw: mergedDoc.destroy(), then the call rejects.
Throw(primitive) ==
    /\ pc' = "rejected"
    /\ error' = primitive
    /\ faults' = faults \cup {primitive}
    /\ mergedDoc' = Destroy(mergedDoc)
    /\ destroyed' = Append(destroyed, MergedHandle)

\* An openDocument that takes any buffer for a PDF without pages.
CanOpen_Any(buf) == TRUE

\* mupdf.PDFDocument.openDocument(buffer, 'application/pdf') returns a
\* document for a PDF and throws for any other buffer.
CanOpen(buf) == buf.valid

\* this.openDocumentWithTimeout(buf) up to the await of line 79.  openDocument
\* is a synchronous call and is evaluated before withTimeout is called: when
\* it returns, withTimeout is given a fulfilled promise and arms its timer,
\* and the call is suspended with the source open, the timer armed and the
\* promise of the guard pending; when it throws, withTimeout is not reached
\* and the call is suspended on a rejected promise; while it has not
\* returned, nothing else runs on the worker, no timer either.
OpenSource ==
    /\ pc = "open"
    /\ docIndex < Len(documents)
    /\ \/ /\ CanOpen(documents[docIndex + 1])
          /\ guard' = Arm
          /\ timeoutMs' = OPEN_DOCUMENT_TIMEOUT
          /\ srcState' = [srcState EXCEPT ![docIndex + 1] = "open"]
          /\ pc' = "opening"
       \/ /\ ~CanOpen(documents[docIndex + 1])
          /\ pc' = "opening"
          /\ UNCHANGED <<srcState, guard, timeoutMs>>
       \/ /\ pc' = "hung"
          /\ UNCHANGED <<srcState, guard, timeoutMs>>
    /\ UNCHANGED <<op, documents, pdfBuffer, mergedDoc, pageMappings,
                   internalLinks, docIndex, i, k, doc, result, error, faults,
                   destroyed, warnings>>
    /\ UNCHANGED chainVars
    /\ UNCHANGED <<promise, jobs, now>>
    /\ UNCHANGED callVars

\* The job of the then-callback of withTimeout (lines 22-25), while the call
\* that opened the document is suspended at its await (line 79 or 249):
\* clearTimeout(timeoutId); resolve(result).  The timer is cleared and the
\* promise of the guard is fulfilled with the document; the call resumes in
\* a later job.
ThenCallback ==
    /\ pc \in {"opening", "v_opening"}
    /\ guard.timer = "armed"
    /\ guard' = RunReaction(guard,
                            Fulfilled(IF op = "merge" THEN "src" ELSE "doc"),
                            "then")
    /\ UNCHANGED <<pc, op, documents, pdfBuffer, mergedDoc, pageMappings,
                   internalLinks, docIndex, i, k, srcState, doc, result, error,
                   faults, destroyed, warnings>>
    /\ UNCHANGED chainVars
    /\ UNCHANGED timerVars
    /\ UNCHANGED callVars

\* The call resumes after the await of line 79, in a job of its own: the
\* promise of the guard has been fulfilled and src is the document; or the
\* open had thrown, and the error is thrown here, into the finally block.
ResumeOpen ==
    /\ pc = "opening"
    /\ op = "merge"
    /\ IF srcState[docIndex + 1] = "open"
       THEN /\ guard.outer.state = "fulfilled"
            /\ guard.timer # "armed"
            /\ i' = 0
            /\ pc' = "page"
            /\ UNCHANGED <<mergedDoc, error, faults, destroyed>>
       ELSE /\ Throw("openDocument")
            /\ i' = i
    /\ UNCHANGED <<op, documents, pdfBuffer, pageMappings, internalLinks,
                   docIndex, k, srcState, doc, result, warnings, guard>>
    /\ UNCHANGED chainVars
    /\ UNCHANGED timerVars
    /\ UNCHANGED callVars

\* console.warn(`Failed to process annotation ${j}:`, e), once for each
\* entry of Annots whose graft throws.
AnnotWarnings(annots) ==
    [j \in 1..Len(SelectSeq(annots,
                            LAMBDA a : KeepsAnnot(a) /\ GraftObjectThrows(a))) |->
        [kind |-> "annotation", uri |-> NoURI]]

\* console.warn(`Failed to copy annotations/links for page ${i}:`, e)
PageWarning == <<[kind |-> "page", uri |-> NoURI]>>

\* One iteration of the page loop: graft, record the mapping, copy the
\* external links and the annotations, queue the internal links.
CopyPage ==
    /\ pc = "page"
    /\ i < Len(documents[docIndex + 1].pages)
    /\ LET srcPage == documents[docIndex + 1].pages[i + 1]
           grafted == GraftPage(mergedDoc.pages, srcPage)
           dstPageIndex == DstPageIndex(grafted)
           extras == CopyPageExtras(srcPage, dstPageIndex)
       IN /\ mergedDoc' = [mergedDoc EXCEPT !.pages =
                 [grafted EXCEPT ![dstPageIndex + 1].annots = extras.annots]]
          /\ pageMappings' = Append(pageMappings,
                 [docIndex |-> docIndex, originalPageIndex |-> i,
                  newPageIndex |-> dstPageIndex])
          /\ internalLinks' = internalLinks \o extras.pending
          /\ faults' = faults \cup
                 (IF extras.threw THEN {"insertLink"}
                  ELSE IF \E j \in 1..Len(srcPage.annots) :
                        /\ KeepsAnnot(srcPage.annots[j])
                        /\ GraftObjectThrows(srcPage.annots[j])
                  THEN {"graftObject"} ELSE {})
          /\ warnings' = warnings \o
                 (IF extras.threw THEN PageWarning
                  ELSE AnnotWarnings(srcPage.annots))
    /\ i' = i + 1
    /\ UNCHANGED <<pc, op, documents, pdfBuffer, docIndex, k, srcState, doc,
                   result, error, destroyed, guard>>
    /\ UNCHANGED chainVars
    /\ UNCHANGED timerVars
    /\ UNCHANGED callVars

\* mergedDoc.graftPage(-1, src, i) throws: nothing catches it before the
\* finally block, and src.destroy() is not reached.
GraftFails ==
    /\ pc = "page"
    /\ i < Len(documents[docIndex + 1].pages)
    /\ Throw("graftPage")
    /\ UNCHANGED <<op, documents, pdfBuffer, pageMappings, internalLinks,
                   docIndex, i, k, srcState, doc, result, warnings, guard>>
    /\ UNCHANGED chainVars
    /\ UNCHANGED timerVars
    /\ UNCHANGED callVars

\* A loop that goes on to the next source without closing this one.
CloseHandle_Leak(states, d) == states

\* src.destroy(): the handle of the source of index d is closed.
CloseHandle(states, d) == [states EXCEPT ![d + 1] = "closed"]

\* A loop over the sources that ends after the first one.
MoreSources_None(next, docs) == FALSE

\* docIndex < documents.length, as the loop tests it after docIndex++
MoreSources(next, docs) == next < Len(docs)

\* src.destroy() after the last page, then the next source or the
\* resolution loop.
CloseSource ==
    /\ pc = "page"
    /\ i = Len(documents[docIndex + 1].pages)
    /\ srcState' = CloseHandle(srcState, docIndex)
    /\ destroyed' = Append(destroyed, SrcHandle(docIndex))
    /\ docIndex' = docIndex + 1
    /\ IF MoreSources(docIndex + 1, documents)
       THEN pc' = "open" /\ k' = k
       ELSE pc' = "resolve" /\ k' = 0
    /\ UNCHANGED <<op, documents, pdfBuffer, mergedDoc, pageMappings,
                   internalLinks, i, doc, result, error, faults, warnings,
                   guard>>
    /\ UNCHANGED chainVars
    /\ UNCHANGED timerVars
    /\ UNCHANGED callVars

\* What the resolution loop warns of for one link: the target page has no
\* mapping (line 220), or insertLink threw (line 224); nothing when the
\* page hosting the link has no mapping.
ResolveWarning(pages, mappings, link) ==
    LET sm == SourceMapping(mappings, link) IN
    IF sm = 0 THEN <<>>
    ELSE LET tm == TargetMapping(mappings, mappings[sm], link) IN
         IF tm = 0 THEN <<[kind |-> "target", uri |-> link.originalURI]>>
         ELSE IF LinkDest(pages, ReplacePageRef(link.originalURI,
                                                NewPageRef(mappings[tm]))) = NoDest
         THEN <<[kind |-> "remap", uri |-> link.originalURI]>>
         ELSE <<>>

\* One iteration of the loop over internalLinks.
ResolveNext ==
    /\ pc = "resolve"
    /\ k < Len(internalLinks)
    /\ mergedDoc' = [mergedDoc EXCEPT !.pages =
           ResolveLink(@, pageMappings, internalLinks[k + 1])]
    /\ warnings' = warnings \o
           ResolveWarning(mergedDoc.pages, pageMappings, internalLinks[k + 1])
    /\ k' = k + 1
    /\ UNCHANGED <<pc, op, documents, pdfBuffer, pageMappings, internalLinks,
                   docIndex, i, srcState, doc, result, error, faults,
                   destroyed, guard>>
    /\ UNCHANGED chainVars
    /\ UNCHANGED timerVars
    /\ UNCHANGED callVars

\* The cleanup of the leading blank page; getText() may throw, and the
\* page is then kept.
RemoveBlankPage ==
    /\ pc = "resolve"
    /\ k = Len(internalLinks)
    /\ \/ /\ mergedDoc' = [mergedDoc EXCEPT !.pages = RemoveBlank(@)]
          /\ faults' = faults
       \/ /\ Len(mergedDoc.pages) > 0
          /\ mergedDoc' = mergedDoc
          /\ faults' = faults \cup {"getText"}
    /\ pc' = "save"
    /\ UNCHANGED <<op, documents, pdfBuffer, pageMappings, internalLinks,
                   docIndex, i, k, srcState, doc, result, error, destroyed,
                   warnings, guard>>
    /\ UNCHANGED chainVars
    /\ UNCHANGED timerVars
    /\ UNCHANGED callVars

\* mergedDoc.saveToBuffer(COMPRESSION_OPTIONS) up to the await of line 241:
\* the call is suspended with mergedDoc still open (the buffer is the local
\* mergedDocument: what SaveToBuffer gives for the pages of mergedDoc); a
\* throw of saveToBuffer goes to the finally block at once.
SaveMerged ==
    /\ pc = "save"
    /\ \/ /\ pc' = "saved"
          /\ UNCHANGED <<mergedDoc, error, faults, destroyed>>
       \/ Throw("saveToBuffer")
    /\ UNCHANGED <<op, documents, pdfBuffer, pageMappings, internalLinks,
                   docIndex, i, k, srcState, doc, result, warnings, guard>>
    /\ UNCHANGED chainVars
    /\ UNCHANGED timerVars
    /\ UNCHANGED callVars

\* The call resumes after the await of line 241: return
\* mergedDocument.asUint8Array(), and the finally block.
ReturnMerged ==
    /\ pc = "saved"
    /\ op = "merge"
    /\ result' = <<SaveToBuffer(mergedDoc.pages)>>
    /\ pc' = "done"
    /\ mergedDoc' = Destroy(mergedDoc)
    /\ destroyed' = Append(destroyed, MergedHandle)
    /\ UNCHANGED <<op, documents, pdfBuffer, pageMappings, internalLinks,
                   docIndex, i, k, srcState, doc, error, faults, warnings,
                   guard>>
    /\ UNCHANGED chainVars
    /\ UNCHANGED timerVars
    /\ UNCHANGED callVars

----------------------------------------------------------------------------
\* rotateDocument(pdfBuffer).

\* The catch block: whatever was thrown, 'Failed to rotate document' is
\* thrown instead; the opened document is not destroyed.
RotateThrow(primitive) ==
    /\ pc' = "rejected"
    /\ error' = "Failed to rotate document"
    /\ faults' = faults \cup {primitive}

\* const doc = mupdf.PDFDocument.openDocument(pdfBuffer, 'application/pdf')
\* Every local of the call starts afresh.
StartRotate(buf) ==
    /\ op' = "rotate"
    /\ pdfBuffer' = buf
    /\ IF CanOpen(buf)
       THEN /\ doc' = [state |-> "open", pages |-> buf.pages]
            /\ pc' = "r_page"
            /\ error' = ""
            /\ faults' = {}
       ELSE /\ pc' = "rejected"
            /\ error' = "Failed to rotate document"
            /\ faults' = {"openDocument"}
            /\ doc' = NoDocument
    /\ i' = 0
    /\ result' = <<>>
    /\ destroyed' = <<>>
    /\ warnings' = <<>>
    /\ guard' = NoGuard
    /\ UNCHANGED <<documents, mergedDoc, pageMappings, internalLinks, docIndex,
                   k, srcState>>
    /\ UNCHANGED timerVars
    /\ UNCHANGED callVars

\* A first call of rotateDocument, on a file of the caller.
RotateDocument ==
    /\ pc = "idle"
    /\ \/ \E buf \in PlainRotateRequests : StartRotate(buf)
       \/ \E s \in Compositions(1) : \E c \in AnnotCounts(s) :
            \E e \in AnnotLists(c) :
                /\ Len(s) = 1
                /\ KindsFit(s, c, e)
                /\ StartRotate(AnnotatedRequest(s, c, e)[1])
    /\ UNCHANGED chainVars

\* A second call: the buffer mergeDocuments returned is rotated (a merge of
\* files without annotations).
RotateMerged ==
    /\ pc = "done"
    /\ op = "merge"
    /\ prev = "none"
    /\ \A d \in 1..Len(documents) : Plain(documents[d])
    /\ StartRotate(result[1])
    /\ prev' = "merge"
    /\ slot' = slot

\* One iteration of the loop: page.rotate(90).
RotateNext ==
    /\ pc = "r_page"
    /\ i < Len(doc.pages)
    /\ doc' = [doc EXCEPT !.pages[i + 1] = RotatePage(@, 90)]
    /\ i' = i + 1
    /\ UNCHANGED <<pc, op, documents, pdfBuffer, mergedDoc, pageMappings,
                   internalLinks, docIndex, k, srcState, result, error, faults,
                   destroyed, warnings, guard>>
    /\ UNCHANGED chainVars
    /\ UNCHANGED timerVars
    /\ UNCHANGED callVars

\* doc.saveToBuffer(COMPRESSION_OPTIONS) up to the await of line 288: the
\* call is suspended with doc still open (the buffer is the local
\* rotatedBuffer: what SaveToBuffer gives for the pages of doc); a throw of
\* saveToBuffer goes to the catch block at once.
SaveRotated ==
    /\ pc = "r_page"
    /\ i = Len(doc.pages)
    /\ \/ /\ pc' = "r_saved"
          /\ UNCHANGED <<error, faults>>
       \/ RotateThrow("saveToBuffer")
    /\ UNCHANGED <<op, documents, pdfBuffer, mergedDoc, pageMappings,
                   internalLinks, docIndex, i, k, srcState, doc, result,
                   destroyed, warnings, guard>>
    /\ UNCHANGED chainVars
    /\ UNCHANGED timerVars
    /\ UNCHANGED callVars

\* The call resumes after the await of line 288: doc.destroy(); return
\* rotatedBuffer.asUint8Array().
ReturnRotated ==
    /\ pc = "r_saved"
    /\ result' = <<SaveToBuffer(doc.pages)>>
    /\ doc' = Destroy(doc)
    /\ destroyed' = Append(destroyed, DocHandle)
    /\ pc' = "done"
    /\ UNCHANGED <<op, documents, pdfBuffer, mergedDoc, pageMappings,
                   internalLinks, docIndex, i, k, srcState, error, faults,
                   warnings, guard>>
    /\ UNCHANGED chainVars
    /\ UNCHANGED timerVars
    /\ UNCHANGED callVars

----------------------------------------------------------------------------
\* renderFirstPage(pdfBuffer).

\* page.toPixmap(...).asPNG() as a data URL: the picture of the page with
\* its annotations.
RenderPage(page) == [png |-> page]

\* The files renderFirstPage is called on: any file of a request whose
\* first page has any shape, or a buffer that is no PDF.
RenderRequests ==
    {InvalidBuffer} \cup
    UNION {UNION {{Build(Alone(p, n),
                         [g \in 1..n |-> IF g = 1 THEN first ELSE DefaultShape],
                         [g \in 1..n |-> <<>>])[p] :
                      first \in Shapes(Rotations)} :
                  n \in 1..MaxPages} :
           p \in 1..MaxDocs}

\* renderFirstPage(pdfBuffer) up to the await of line 249, on a file of the
\* caller: the open goes through openDocumentWithTimeout as in
\* mergeDocuments.  Every local of the call starts afresh.
RenderFirstPage ==
    /\ pc = "idle"
    /\ \E buf \in RenderRequests :
         /\ pdfBuffer' = buf
         /\ \/ /\ CanOpen(buf)
               /\ doc' = [state |-> "open", pages |-> buf.pages]
               /\ guard' = Arm
               /\ timeoutMs' = OPEN_DOCUMENT_TIMEOUT
               /\ pc' = "v_opening"
            \/ /\ ~CanOpen(buf)
               /\ doc' = NoDocument
               /\ guard' = NoGuard
               /\ timeoutMs' = timeoutMs
               /\ pc' = "v_opening"
            \/ /\ doc' = NoDocument
               /\ guard' = NoGuard
               /\ timeoutMs' = timeoutMs
               /\ pc' = "hung"
    /\ op' = "render"
    /\ i' = 0
    /\ result' = <<>>
    /\ error' = ""
    /\ faults' = {}
    /\ destroyed' = <<>>
    /\ warnings' = <<>>
    /\ UNCHANGED <<documents, mergedDoc, pageMappings, internalLinks, docIndex,
                   k, srcState>>
    /\ UNCHANGED chainVars
    /\ UNCHANGED <<promise, jobs, now>>
    /\ UNCHANGED callVars

\* The call resumes after the await of line 249, in a job of its own.  The
\* open had thrown: the error is thrown here, outside the try block.
\* Otherwise the promise of the guard has been fulfilled and doc is the
\* document: page 0 is rendered and the data URL is returned, or toPixmap
\* throws; either way the finally block destroys doc.
DrawFirstPage ==
    /\ pc = "v_opening"
    /\ guard' = guard
    /\ \/ /\ doc = NoDocument
          /\ pc' = "rejected"
          /\ error' = "openDocument"
          /\ faults' = faults \cup {"openDocument"}
          /\ UNCHANGED <<doc, result, destroyed>>
       \/ /\ doc # NoDocument
          /\ guard.outer.state = "fulfilled"
          /\ guard.timer # "armed"
          /\ doc' = Destroy(doc)
          /\ destroyed' = Append(destroyed, DocHandle)
          /\ \/ /\ result' = <<RenderPage(doc.pages[1])>>
                /\ pc' = "done"
                /\ UNCHANGED <<error, faults>>
             \/ /\ pc' = "rejected"
                /\ error' = "toPixmap"
                /\ faults' = faults \cup {"toPixmap"}
                /\ result' = result
    /\ UNCHANGED <<op, documents, pdfBuffer, mergedDoc, pageMappings,
                   internalLinks, docIndex, i, k, srcState, warnings>>
    /\ UNCHANGED chainVars
    /\ UNCHANGED timerVars
    /\ UNCHANGED callVars

Next ==
    \/ MergeDocuments
    \/ MergeRotated
    \/ OpenSource
    \/ ThenCallback
    \/ ResumeOpen
    \/ CopyPage
    \/ GraftFails
    \/ CloseSource
    \/ ResolveNext
    \/ RemoveBlankPage
    \/ SaveMerged
    \/ ReturnMerged
    \/ RotateDocument
    \/ RotateMerged
    \/ RotateNext
    \/ SaveRotated
    \/ ReturnRotated
    \/ RenderFirstPage
    \/ DrawFirstPage

Spec == Init /\ [][Next]_vars

----------------------------------------------------------------------------
\* withTimeout(promise, timeoutMs) on its own, given any promise: one that is
\* settled already, one that settles later, one that never does.  Tasks of
\* the event loop (the given promise being settled, the timer's callback)
\* run one at a time, and the reaction jobs a task queues run before the
\* next task.

\* What withTimeout leaves alone.
workerVars == <<documents, pdfBuffer, mergedDoc, pageMappings, internalLinks,
                docIndex, i, k, srcState, doc, result, error, faults,
                destroyed, warnings, prev, slot, calls, frames>>

Timeouts == 1..(MaxTime - 1)
Handles == {"h1", "h2"}
Errors == {"e1", "e2"}

\* The call: the executor arms the timer, then and catch are attached.
WithTimeout ==
    /\ pc = "idle"
    /\ \E T \in Timeouts :
         \E given \in {Pending} \cup {Fulfilled(h) : h \in Handles}
                      \cup {Rejected(e) : e \in Errors} :
            /\ timeoutMs' = T
            /\ promise' = given
            /\ jobs' = Reactions(given)
    /\ guard' = Arm
    /\ now' = 0
    /\ pc' = "guarded"
    /\ op' = "withTimeout"
    /\ UNCHANGED workerVars

\* The operation completes: the given promise is fulfilled.
OpFulfils ==
    /\ pc = "guarded"
    /\ jobs = <<>>
    /\ promise.state = "pending"
    /\ \E h \in Handles :
         /\ promise' = Fulfilled(h)
         /\ jobs' = Reactions(Fulfilled(h))
    /\ UNCHANGED <<pc, op, guard, now, timeoutMs>>
    /\ UNCHANGED workerVars

\* The operation fails: the given promise is rejected.
OpRejects ==
    /\ pc = "guarded"
    /\ jobs = <<>>
    /\ promise.state = "pending"
    /\ \E e \in Errors :
         /\ promise' = Rejected(e)
         /\ jobs' = Reactions(Rejected(e))
    /\ UNCHANGED <<pc, op, guard, now, timeoutMs>>
    /\ UNCHANGED workerVars

\* The next reaction job runs.
RunJob ==
    /\ pc = "guarded"
    /\ jobs # <<>>
    /\ guard' = RunReaction(guard, promise, Head(jobs))
    /\ jobs' = Tail(jobs)
    /\ UNCHANGED <<pc, op, promise, now, timeoutMs>>
    /\ UNCHANGED workerVars

\* The timer's callback runs: the timer is armed and timeoutMs have passed.
TimerFires ==
    /\ pc = "guarded"
    /\ jobs = <<>>
    /\ guard.timer = "armed"
    /\ now >= timeoutMs
    /\ guard' = OnTimeout(guard, timeoutMs)
    /\ UNCHANGED <<pc, op, promise, jobs, now, timeoutMs>>
    /\ UNCHANGED workerVars

\* A millisecond passes.
Tick ==
    /\ pc = "guarded"
    /\ jobs = <<>>
    /\ now < MaxTime
    /\ now' = now + 1
    /\ UNCHANGED <<pc, op, guard, promise, jobs, timeoutMs>>
    /\ UNCHANGED workerVars

TimeoutNext ==
    \/ WithTimeout
    \/ OpFulfils
    \/ OpRejects
    \/ RunJob
    \/ TimerFires
    \/ Tick

\* The event loop runs the jobs and the timers that are due, and time
\* passes.
TimeoutSpec ==
    /\ Init
    /\ [][TimeoutNext]_vars
    /\ WF_vars(RunJob)
    /\ WF_vars(TimerFires)
    /\ WF_vars(Tick)

----------------------------------------------------------------------------
\* Several calls on one worker.  A method runs without interruption from
\* one await to the next: mergeDocuments is suspended at the await of each
\* open (line 79) and at the await of saveToBuffer (line 241),
\* renderFirstPage at the await of its open (line 249), rotateDocument at
\* the await of saveToBuffer (line 288).  While a call is suspended any
\* other call may run.

\* What a call on its own changes, left alone by interleaved calls.
serialVars == <<documents, pdfBuffer, mergedDoc, pageMappings, internalLinks,
                docIndex, i, k, srcState, doc, result, error, faults,
                destroyed, warnings, prev, slot, pc, op, guard, promise, jobs,
                now, timeoutMs>>

Calls == 1..MaxCalls

\* The files of the caller: a page with a link to itself, and two pages of
\* which the second has a link to the first.
CallFiles ==
    LET docs == Build(<<1, 2>>, [g \in 1..3 |-> DefaultShape],
                      [g \in 1..3 |-> IF g = 2 THEN <<>> ELSE <<<<"int", 1>>>>])
    IN {docs[1], docs[2]}

\* The lists of files mergeDocuments is called on: some of the files, each
\* once, in any order.
CallRequests ==
    {docs \in UNION {[1..n -> CallFiles] : n \in 1..Cardinality(CallFiles)} :
        \A a, b \in 1..Len(docs) : a # b => docs[a] # docs[b]}

\* The call is suspended at an await.
InFlight(call) == call.pc \in {"opened", "saving"}

\* Marks the calls that are in flight together.
Mix(cs) ==
    [c \in DOMAIN cs |->
        IF InFlight(cs[c]) /\ \E e \in DOMAIN cs : e # c /\ InFlight(cs[e])
        THEN [cs[c] EXCEPT !.mixed = TRUE]
        ELSE cs[c]]

\* One iteration of the page loop of mergeDocuments, on the locals of one
\* invocation.
GraftSourcePage(frame, srcPage, d, j) ==
    LET grafted == GraftPage(frame.pages, srcPage)
        dstPageIndex == DstPageIndex(grafted)
        extras == CopyPageExtras(srcPage, dstPageIndex)
    IN [frame EXCEPT
           !.pages = [grafted EXCEPT ![dstPageIndex + 1].annots = extras.annots],
           !.pageMappings = Append(@, [docIndex |-> d, originalPageIndex |-> j,
                                       newPageIndex |-> dstPageIndex]),
           !.internalLinks = @ \o extras.pending]

\* The page loop of mergeDocuments over the source of index d, from page j.
RECURSIVE GraftSource(_, _, _, _)
GraftSource(frame, src, d, j) ==
    IF j >= Len(src.pages) THEN frame
    ELSE GraftSource(GraftSourcePage(frame, src.pages[j + 1], d, j), src, d, j + 1)

\* The resolution loop of mergeDocuments.
RECURSIVE ResolveAll(_, _, _)
ResolveAll(pages, mappings, links) ==
    IF links = <<>> THEN pages
    ELSE ResolveAll(ResolveLink(pages, mappings, Head(links)), mappings, Tail(links))

\* The loop of rotateDocument.
RotateAll(pages) == [n \in 1..Len(pages) |-> RotatePage(pages[n], 90)]

\* mergeDocuments(documents) is called: the output document and the tables
\* are created, the first source is opened, the timer of the guard is armed
\* and the call awaits the guard (line 79).
InvokeMerge ==
    \E c \in Calls : \E docs \in CallRequests :
        /\ ~InFlight(calls[c])
        /\ calls' = Mix([calls EXCEPT ![c] =
               [IdleCall EXCEPT !.op = "merge", !.input = docs, !.pc = "opened",
                                !.timer = Arm.timer, !.main = "open",
                                !.src = "open"]])
        /\ frames' = [frames EXCEPT ![Scope(c)] =
               [NoFrame EXCEPT !.pages = CreateBlankDocument.pages]]
        /\ UNCHANGED serialVars

\* The job of the then-callback of the guard of a call suspended at the
\* await of its open (lines 22-25): the timer is cleared; the call resumes
\* in a later job, and jobs of other calls may run in between.
SettleGuard ==
    \E c \in Calls :
        /\ calls[c].pc = "opened"
        /\ calls[c].timer = "armed"
        /\ calls' = [calls EXCEPT ![c].timer = ClearTimeout(@)]
        /\ frames' = frames
        /\ UNCHANGED serialVars

\* mergeDocuments resumes after an open, the guard settled: the pages of
\* the source are grafted and the source is closed; then the next source is
\* opened, a timer is armed and the call awaits again, or, after the last
\* source, the links are resolved, the blank page is removed, the document
\* is saved and the call awaits the buffer (line 241), mergedDoc still open.
ResumeMerge ==
    \E c \in Calls :
        /\ calls[c].op = "merge"
        /\ calls[c].pc = "opened"
        /\ calls[c].timer = "cleared"
        /\ LET d == calls[c].docIndex
               grafted == GraftSource(frames[Scope(c)], calls[c].input[d + 1], d, 0)
               resolved == RemoveBlank(ResolveAll(grafted.pages, grafted.pageMappings,
                                                  grafted.internalLinks))
               closed == Append(calls[c].destroyed, SrcHandle(d))
           IN IF MoreSources(d + 1, calls[c].input)
              THEN /\ frames' = [frames EXCEPT ![Scope(c)] = grafted]
                   /\ calls' = Mix([calls EXCEPT ![c].docIndex = d + 1,
                                                 ![c].destroyed = closed,
                                                 ![c].timer = Arm.timer])
              ELSE /\ frames' = [frames EXCEPT ![Scope(c)] =
                          [grafted EXCEPT !.pages = resolved,
                                          !.saved = SaveToBuffer(resolved)]]
                   /\ calls' = Mix([calls EXCEPT ![c].docIndex = d + 1,
                                                 ![c].pc = "saving",
                                                 ![c].destroyed = closed,
                                                 ![c].src = "destroyed"])
        /\ UNCHANGED serialVars

\* rotateDocument(pdfBuffer) is called: the document is opened without a
\* guard, its pages are rotated, it is saved and the call awaits the buffer
\* (line 288), doc still open.
InvokeRotate ==
    \E c \in Calls : \E buf \in CallFiles :
        /\ ~InFlight(calls[c])
        /\ calls' = Mix([calls EXCEPT ![c] =
               [IdleCall EXCEPT !.op = "rotate", !.input = <<buf>>,
                                !.pc = "saving", !.main = "open"]])
        /\ frames' = [frames EXCEPT ![Scope(c)] =
               [NoFrame EXCEPT !.pages = RotateAll(buf.pages),
                               !.saved = SaveToBuffer(RotateAll(buf.pages))]]
        /\ UNCHANGED serialVars

\* renderFirstPage(pdfBuffer) is called: the document is opened, the timer
\* of the guard is armed and the call awaits the guard (line 249).
InvokeRender ==
    \E c \in Calls : \E buf \in CallFiles :
        /\ ~InFlight(calls[c])
        /\ calls' = Mix([calls EXCEPT ![c] =
               [IdleCall EXCEPT !.op = "render", !.input = <<buf>>,
                                !.pc = "opened", !.timer = Arm.timer,
                                !.main = "open"]])
        /\ frames' = [frames EXCEPT ![Scope(c)] = [NoFrame EXCEPT !.pages = buf.pages]]
        /\ UNCHANGED serialVars

\* renderFirstPage resumes after the open, the guard settled: page 0 is
\* rendered and returned, and the finally block destroys doc.
ResumeRender ==
    \E c \in Calls :
        /\ calls[c].op = "render"
        /\ calls[c].pc = "opened"
        /\ calls[c].timer = "cleared"
        /\ calls' = Mix([calls EXCEPT
               ![c].pc = "done",
               ![c].result = <<RenderPage(frames[Scope(c)].pages[1])>>,
               ![c].main = "destroyed",
               ![c].destroyed = Append(@, DocHandle)])
        /\ frames' = frames
        /\ UNCHANGED serialVars

\* mergeDocuments or rotateDocument resumes after saveToBuffer: its
\* document is destroyed (the finally block of line 244, line 289) and the
\* buffer is returned.
ReturnBuffer ==
    \E c \in Calls :
        /\ calls[c].pc = "saving"
        /\ calls' = Mix([calls EXCEPT
               ![c].pc = "done",
               ![c].result = <<frames[Scope(c)].saved>>,
               ![c].main = "destroyed",
               ![c].destroyed = Append(@, IF calls[c].op = "merge"
                                          THEN MergedHandle ELSE DocHandle)])
        /\ frames' = frames
        /\ UNCHANGED serialVars

CallNext ==
    \/ InvokeMerge
    \/ SettleGuard
    \/ ResumeMerge
    \/ InvokeRotate
    \/ InvokeRender
    \/ ResumeRender
    \/ ReturnBuffer

ConcurrentSpec == Init /\ [][CallNext]_vars

----------------------------------------------------------------------------
\* What the claims speak of.

\* The pages of all the sources, in request order.
RECURSIVE AllPages(_)
AllPages(docs) == IF docs = <<>> THEN <<>> ELSE docs[1].pages \o AllPages(Tail(docs))

Contents(pages) == [n \in 1..Len(pages) |-> pages[n].content]

IsLink(a) == a.subtype = "Link"
IsExternalLink(a) == a.subtype = "Link" /\ IsExternal(a.uri)
IsInternalLink(a) == a.subtype = "Link" /\ ~IsExternal(a.uri)
IsWidget(a) == a.subtype # "Link"

\* The numbers of links, external links, internal links and non-link
\* annotations of a list of pages.
NumLinks(pages) ==
    SumSeq([n \in 1..Len(pages) |-> Len(SelectSeq(pages[n].annots, IsLink))])
NumExternalLinks(pages) ==
    SumSeq([n \in 1..Len(pages) |-> Len(SelectSeq(pages[n].annots, IsExternalLink))])
NumInternalLinks(pages) ==
    SumSeq([n \in 1..Len(pages) |-> Len(SelectSeq(pages[n].annots, IsInternalLink))])
NumWidgets(pages) ==
    SumSeq([n \in 1..Len(pages) |-> Len(SelectSeq(pages[n].annots, IsWidget))])

\* mergeDocuments returned a buffer.
MergeReturned == op = "merge" /\ pc = "done"

\* The pages of the returned document.
Out == result[1].pages

\* The pages the sources hold in all.
In == AllPages(documents)

\* The source page a content stream was grafted from.
SourcePage(content) == documents[content[1] + 1].pages[content[2] + 1]

\* C1 as stated: after a successful merge the returned document has as many
\* pages as the sources have in all.
C1_Original == MergeReturned => Len(Out) = Len(In)

\* C1, amended: after a successful merge the returned document has as many
\* pages as the sources have in all when the text of the leading scratch
\* page could be extracted, and one page more (the scratch page is kept)
\* when that extraction threw.
C1_PageCount ==
    MergeReturned =>
        Len(Out) = Len(In) + (IF "getText" \in faults THEN 1 ELSE 0)

C1_Witness ==
    /\ MergeReturned
    /\ "getText" \notin faults
    /\ Len(documents) = 2
    /\ Len(documents[1].pages) = 1
    /\ Len(Out) = 3

\* C2 as stated: after a successful merge, output index i holds the i-th
\* page of the concatenation of the sources in request order.
C2_Original == MergeReturned => Contents(Out) = Contents(In)

\* C2, amended: after a successful merge the pages of the returned document
\* are the pages of the sources in request order, each source in its own
\* page order, preceded by the scratch page when the extraction of its text
\* threw (output index i + 1 then holds the i-th page of the concatenation).
C2_PageOrder ==
    MergeReturned =>
        Contents(Out) =
            (IF "getText" \in faults THEN <<BlankContent>> ELSE <<>>)
            \o Contents(In)

C2_Witness ==
    /\ MergeReturned
    /\ "getText" \notin faults
    /\ Len(documents) = 2
    /\ Len(documents[1].pages) = 2
    /\ Out[3].content = <<1, 0>>

\* C3: after a successful merge every internal link of the returned
\* document, read from that document, carries a page number p with
\* 1 <= p <= the page count of the returned document: its destination is a
\* page of the returned document.
C3_LinksInRange ==
    MergeReturned =>
        \A n \in 1..Len(Out) : \A j \in 1..Len(Out[n].annots) :
            LET a == Out[n].annots[j] IN
            (IsLink(a) /\ HasPageRef(a.uri)) =>
                (1 =< LinkPage(Out, a) /\ LinkPage(Out, a) =< Len(Out))

\* A merge of two sources returned, the scratch page was removed, and a page
\* of the second source carries a resolved link to the last page of the
\* returned document; the number handed to insertLink was one higher, counted
\* while the scratch page was still there.
C3_Witness ==
    /\ MergeReturned
    /\ "getText" \notin faults
    /\ Len(documents) = 2
    /\ \E n \in 1..Len(Out) : \E j \in 1..Len(Out[n].annots) :
           LET a == Out[n].annots[j] IN
           /\ Out[n].content[1] = 1
           /\ IsLink(a) /\ HasPageRef(a.uri)
           /\ LinkPage(Out, a) = Len(Out)
           /\ a.uri.page = Len(Out) + 1

\* C4: after a successful merge the returned document has as many external
\* links as the source pages have in all.
C4_ExternalLinksConserved ==
    MergeReturned =>
        NumExternalLinks(Out) = NumExternalLinks(In)

\* C5: after a successful merge in which no annotation copy failed, the
\* returned document has as many non-link annotations as the source pages
\* have in all.
C5_WidgetsConserved ==
    (MergeReturned /\ "graftObject" \notin faults) =>
        NumWidgets(Out) = NumWidgets(In)

\* C6: after a successful merge the returned document has as many links as
\* the sources have in all, and after a merge of a single source as many
\* internal links as that source.
C6_LinksConserved ==
    MergeReturned =>
        /\ NumLinks(Out) = NumLinks(In)
        /\ Len(documents) = 1 =>
               NumInternalLinks(Out) = NumInternalLinks(In)

\* C7: mergeDocuments of the empty list is rejected with 'No documents to
\* merge'; no output document is created, no source is opened, nothing is
\* returned.
C7_EmptyRejected ==
    (op = "merge" /\ Len(documents) = 0) =>
        /\ pc = "rejected"
        /\ error = "No documents to merge"
        /\ mergedDoc = NoDocument
        /\ \A d \in 1..Len(srcState) : srcState[d] = "unopened"
        /\ pageMappings = <<>>
        /\ result = <<>>

C7_Witness == op = "merge" /\ documents = <<>> /\ pc = "rejected"

FatalPrimitives == {"openDocument", "graftPage", "saveToBuffer"}

\* C8: a merge in which the open of a source, the graft of a page or the
\* serialization threw is rejected and returns no buffer; a merge that
\* returns a buffer opened every source and grafted each of their pages
\* into it exactly once.
C8_AllOrNothing ==
    op = "merge" =>
        /\ (faults \cap FatalPrimitives # {}) => (pc = "rejected" /\ result = <<>>)
        /\ result # <<>> =>
               /\ \A d \in 1..Len(documents) : documents[d].valid
               /\ \A m \in 1..Len(In) :
                      Cardinality({n \in 1..Len(Out) :
                                      Out[n].content = In[m].content}) = 1

C8_Witness ==
    /\ op = "merge"
    /\ pc = "rejected"
    /\ "graftPage" \in faults
    /\ Len(mergedDoc.pages) = 3
    /\ result = <<>>

\* C9: rotateDocument of a PDF returns a document with the same number of
\* pages, each page turned one quarter turn clockwise (its displayed width
\* and height swapped), with the same content, box and annotations; of a
\* buffer that is no PDF it is rejected.
C9_Rotate ==
    op = "rotate" =>
        /\ pc = "done" =>
               /\ Len(Out) = Len(pdfBuffer.pages)
               /\ \A n \in 1..Len(Out) :
                      LET before == pdfBuffer.pages[n] IN
                      /\ Out[n].rot = (before.rot + 90) % 360
                      /\ Bounds(Out[n]) = <<Bounds(before)[2], Bounds(before)[1]>>
                      /\ Out[n].annots = before.annots
                      /\ Out[n].content = before.content
                      /\ Out[n].box = before.box
        /\ ~pdfBuffer.valid => (pc = "rejected" /\ result = <<>>)

C9_Witness ==
    /\ op = "rotate"
    /\ pc = "done"
    /\ Len(Out) = 2
    /\ pdfBuffer.pages[1].rot = 270
    /\ pdfBuffer.pages[2].box = <<400, 300>>

\* C10: after a successful merge each page of the returned document that
\* was grafted from a source page has that page's box and rotation, hence
\* its displayed bounds.
C10_Dimensions ==
    MergeReturned =>
        \A n \in 1..Len(Out) :
            Out[n].content # BlankContent =>
                /\ Out[n].box = SourcePage(Out[n].content).box
                /\ Out[n].rot = SourcePage(Out[n].content).rot
                /\ Bounds(Out[n]) = Bounds(SourcePage(Out[n].content))

C10_Witness ==
    /\ MergeReturned
    /\ Len(documents) = 2
    /\ Len(Out) = 3
    /\ Out[2].box = <<400, 300>>
    /\ Out[2].rot = 90
    /\ Out[3].box = <<595, 842>>

\* Width and height exchanged.
Swap(b) == <<b[2], b[1]>>

\* C11: rotating a file and merging the result with other files, and merging
\* the file with the others and rotating the result, give the same displayed
\* dimensions to each page that came from the file: those of the page in the
\* file with width and height exchanged.
C11_Commute ==
    /\ (prev = "rotate" /\ MergeReturned) =>
           \A n \in 1..Len(Out) :
               (Out[n].content # BlankContent /\ Out[n].content[1] = slot) =>
                   Bounds(Out[n]) =
                       Swap(Bounds(pdfBuffer.pages[Out[n].content[2] + 1]))
    /\ (prev = "merge" /\ op = "rotate" /\ pc = "done") =>
           \A n \in 1..Len(Out) :
               Out[n].content # BlankContent =>
                   Bounds(Out[n]) = Swap(Bounds(SourcePage(Out[n].content)))

\* A landscape page stored with a quarter turn was rotated, then merged as
\* the second of two files.
C11_Witness ==
    /\ prev = "rotate"
    /\ MergeReturned
    /\ slot = 1
    /\ Len(Out) = 2
    /\ documents[1].valid
    /\ pdfBuffer.pages[1].box = <<400, 300>>
    /\ pdfBuffer.pages[1].rot = 90
    /\ Bounds(Out[2]) = <<400, 300>>

\* What withTimeout has delivered, once the jobs of the current task are done.
GuardSettled ==
    op = "withTimeout" =>
        /\ guard.timer = "fired" =>
               (guard.outer = Rejected(TimeoutError(timeoutMs)) /\ now >= timeoutMs)
        /\ guard.timer = "cleared" =>
               (promise.state # "pending" /\ guard.outer = promise)
        /\ (guard.timer = "armed" /\ jobs = <<>>) =>
               (promise.state = "pending" /\ guard.outer = Pending)

\* C12: withTimeout settles exactly once.  The promise it returns is settled
\* with the outcome of the operation (its handle, or its error) when the
\* operation settles before the timer's callback runs, and with the timeout
\* error when the timer's callback runs first, which it does not before
\* timeoutMs have passed; once settled it never changes, so a handle that
\* comes after the timeout is not delivered; once the operation has settled
\* and its reactions have run the timer is no longer armed; and the promise
\* is settled in the end.
C12_SettlesOnce ==
    /\ []GuardSettled
    /\ [][guard.outer.state # "pending" => guard.outer' = guard.outer]_vars
    /\ (op = "withTimeout") ~> (guard.outer.state # "pending")

\* The timer fired first; the operation then produced a handle, its
\* reactions ran, and the caller still has the timeout error.
C12_Witness ==
    /\ op = "withTimeout"
    /\ guard.timer = "fired"
    /\ promise.state = "fulfilled"
    /\ jobs = <<>>
    /\ guard.outer = Rejected(TimeoutError(timeoutMs))

\* C13: mergeDocuments never waits for an open without bound: while the
\* open of a source has not completed, the timer of the Timeout Guard is
\* armed, so that the call fails with the timeout error once the bound has
\* passed.
C13_OpenBounded ==
    (op = "merge" /\ pc = "hung") => guard.timer = "armed"

\* How many times destroy() was called on a handle.
TimesDestroyed(handle) ==
    Len(SelectSeq(destroyed, LAMBDA h : h = handle))

\* C14: the output document of mergeDocuments is open, and was never
\* destroyed, at every step that uses it (opening and copying the sources,
\* resolving the links, the cleanup, the serialization) and while the call
\* is suspended at an await, and once the call
\* has returned or thrown after creating it, it has been destroyed exactly
\* once, whatever the exit: a buffer returned, a source that does not open,
\* a graft or a serialization that throws.
C14_ReleasedOnce ==
    op = "merge" =>
        /\ TimesDestroyed(MergedHandle) =< 1
        /\ pc \in {"open", "opening", "hung", "page", "resolve", "save", "saved"} =>
               (mergedDoc.state = "open" /\ TimesDestroyed(MergedHandle) = 0)
        /\ (pc \in {"done", "rejected"} /\ mergedDoc # NoDocument) =>
               (mergedDoc.state = "destroyed" /\ TimesDestroyed(MergedHandle) = 1)
        /\ (pc \in {"done", "rejected"} /\ mergedDoc = NoDocument) =>
               (Len(documents) = 0 /\ TimesDestroyed(MergedHandle) = 0)

\* The serialization threw after two sources were copied.
C14_Witness ==
    /\ op = "merge"
    /\ pc = "rejected"
    /\ "saveToBuffer" \in faults
    /\ Len(documents) = 2
    /\ mergedDoc.state = "destroyed"
    /\ destroyed = <<SrcHandle(0), SrcHandle(1), MergedHandle>>

\* The position (from 1) of the page with the given content, 0 if none.
PositionOf(pages, content) ==
    IF \E n \in 1..Len(pages) : pages[n].content = content
    THEN CHOOSE n \in 1..Len(pages) : pages[n].content = content
    ELSE 0

\* The links with a page reference of the returned document, as pairs of
\* the position of the page and of the entry in its Annots array.
OutPageLinks ==
    {nj \in (1..Len(Out)) \X (1..MaxAnnots + 1) :
        /\ nj[2] =< Len(Out[nj[1]].annots)
        /\ IsLink(Out[nj[1]].annots[nj[2]])
        /\ HasPageRef(Out[nj[1]].annots[nj[2]].uri)}

\* The entries of the source page a page of the returned document was
\* grafted from that have the rectangle of the link a.
Originals(page, a) ==
    IF page.content = BlankContent THEN {}
    ELSE LET src == SourcePage(page.content) IN
         {src.annots[m] : m \in {q \in 1..Len(src.annots) :
                                    src.annots[q].rect = a.rect}}

\* The scratch page is gone from the returned document.
ScratchRemoved == "getText" \notin faults

\* C15 as stated: the page number written into the remapped URI of a
\* resolved link is the position, in the returned document, of the page
\* grafted from page t - 1 of the source of the link.
C15_Original ==
    MergeReturned =>
        \A nj \in OutPageLinks :
            LET page == Out[nj[1]]
                a == page.annots[nj[2]]
            IN \E s \in Originals(page, a) :
                  a.uri.page =
                      PositionOf(Out, <<page.content[1], s.uri.page - 1>>)

\* C15, amended: a resolved link, found in source d with target t, leads to
\* the page grafted from page t - 1 of source d, and read from the returned
\* document it carries the position of that page; the page number written
\* into the remapped URI is the position of that page in the output document
\* as it is when the link is written, with the scratch page in front: one
\* more than its position in the returned document when the scratch page
\* was removed.
C15_LinkTarget ==
    MergeReturned =>
        \A nj \in OutPageLinks :
            LET page == Out[nj[1]]
                a == page.annots[nj[2]]
            IN \E s \in Originals(page, a) :
                  LET target == <<page.content[1], s.uri.page - 1>> IN
                  /\ HasPageRef(s.uri)
                  /\ a.dest = target
                  /\ PositionOf(Out, target) >= 1
                  /\ LinkPage(Out, a) = PositionOf(Out, target)
                  /\ a.uri.page = PositionOf(Out, target)
                                    + (IF ScratchRemoved THEN 1 ELSE 0)

\* The first page of the second source has a link to itself; it is page 3 of
\* the returned document and the URI written holds 4.
C15_Witness ==
    /\ MergeReturned
    /\ ScratchRemoved
    /\ Len(documents) = 2
    /\ Len(Out) = 3
    /\ Out[3].content = <<1, 0>>
    /\ Len(Out[3].annots) = 1
    /\ Out[3].annots[1].dest = <<1, 0>>
    /\ Out[3].annots[1].uri.page = 4
    /\ LinkPage(Out, Out[3].annots[1]) = 3

\* C16: an internal link is resolved against the pages of its own source:
\* in the resolution loop the mapping found for the target of a queued link
\* has the docIndex of the source the page hosting the link was grafted
\* from, and in the returned document a resolved link leads to a page of
\* that source.
C16_SameSource ==
    /\ (op = "merge" /\ pc = "resolve") =>
           \A q \in 1..Len(internalLinks) :
               LET link == internalLinks[q]
                   sm == SourceMapping(pageMappings, link)
                   tm == IF sm = 0 THEN 0
                         ELSE TargetMapping(pageMappings, pageMappings[sm], link)
               IN tm # 0 =>
                      pageMappings[tm].docIndex =
                          mergedDoc.pages[link.newPageIndex + 1].content[1]
    /\ MergeReturned =>
           \A nj \in OutPageLinks :
               Out[nj[1]].annots[nj[2]].dest[1] = Out[nj[1]].content[1]

\* Both sources have a page of index 0, and a link of the second source to
\* its page 1 leads to the second source's page.
C16_Witness ==
    /\ MergeReturned
    /\ Len(documents) = 2
    /\ Len(documents[1].pages) = 1
    /\ Len(documents[2].pages) = 2
    /\ \E j \in 1..Len(Out[Len(Out)].annots) :
           /\ HasPageRef(Out[Len(Out)].annots[j].uri)
           /\ Out[Len(Out)].content = <<1, 1>>
           /\ Out[Len(Out)].annots[j].dest = <<1, 0>>

\* C17: every link of the returned document is on the page grafted from
\* the source page that hosts a link with the same rectangle; an external
\* link has the URI of that source link, and a link with a page reference
\* comes from a source link with a page reference.
C17_LinkPlacement ==
    MergeReturned =>
        \A n \in 1..Len(Out) : \A j \in 1..Len(Out[n].annots) :
            LET a == Out[n].annots[j] IN
            IsLink(a) =>
                \E s \in Originals(Out[n], a) :
                    /\ IsLink(s)
                    /\ IsExternal(a.uri) => a.uri = s.uri
                    /\ IsExternal(a.uri) <=> IsExternal(s.uri)
                    /\ HasPageRef(a.uri) <=> HasPageRef(s.uri)

\* A page of the second source carries an external link and a resolved
\* internal link, each where its source link is.
C17_Witness ==
    /\ MergeReturned
    /\ Len(documents) = 2
    /\ Len(Out) = 2
    /\ Out[2].content = <<1, 0>>
    /\ Len(Out[2].annots) = 2
    /\ IsExternal(Out[2].annots[1].uri)
    /\ Out[2].annots[1].rect = Rect(2, 1)
    /\ HasPageRef(Out[2].annots[2].uri)
    /\ Out[2].annots[2].rect = Rect(2, 2)

\* The links of the source pages that are not external, as pairs of the
\* position of the page in the request and of the entry in its Annots array.
InInternalLinks ==
    {mq \in (1..Len(In)) \X (1..MaxAnnots + 1) :
        /\ mq[2] =< Len(In[mq[1]].annots)
        /\ IsInternalLink(In[mq[1]].annots[mq[2]])}

\* How many links of the returned document are on the page grafted from the
\* page of the source link s, with the rectangle of s.
Copies(content, s) ==
    LET n == PositionOf(Out, content) IN
    IF n = 0 THEN 0
    ELSE Len(SelectSeq(Out[n].annots, LAMBDA a : IsLink(a) /\ a.rect = s.rect))

\* The target of a source link is a page of its source.
TargetInRange(content, s) ==
    /\ HasPageRef(s.uri)
    /\ s.uri.page >= 1
    /\ s.uri.page =< Len(documents[content[1] + 1].pages)

\* The warnings of the resolution loop.
LinkWarnings == SelectSeq(warnings, LAMBDA w : w.kind \in {"target", "remap"})

\* The link loop of the page came to entry j of its Annots array: no link
\* before it made the loop throw.
LinkLoopReached(page, j) ==
    \A q \in 1..(j - 1) :
        ~(IsLink(page.annots[q]) /\ InsertLinkThrows(page.annots[q]))

\* C18: an internal link whose page number is 0 or greater than the page
\* count of its source is dropped with a warning and the merge does not fail
\* over it: a merge is only rejected for the empty list, an open, a graft or
\* the serialization; the returned document has no link for it, has every
\* page, and has exactly one link for each internal link whose target is a
\* page of its source (of the links the link loop of their page came to; a
\* link the loop did not come to has no copy and the page has a warning).
C18_BrokenLinkDropped ==
    /\ (op = "merge" /\ pc = "rejected") =>
           error \in {"No documents to merge"} \cup FatalPrimitives
    /\ MergeReturned =>
           /\ Len(Out) = Len(In) + (IF ScratchRemoved THEN 0 ELSE 1)
           /\ \A mq \in InInternalLinks :
                  LET content == In[mq[1]].content
                      s == In[mq[1]].annots[mq[2]]
                  IN HasPageRef(s.uri) =>
                        IF ~LinkLoopReached(In[mq[1]], mq[2])
                        THEN /\ Copies(content, s) = 0
                             /\ \E w \in 1..Len(warnings) :
                                    warnings[w].kind = "page"
                        ELSE IF TargetInRange(content, s)
                        THEN Copies(content, s) = 1
                        ELSE /\ Copies(content, s) = 0
                             /\ \E w \in 1..Len(warnings) :
                                    warnings[w] = [kind |-> "target", uri |-> s.uri]

\* A page with a link to page 0 and a link to page 1: the merge returned,
\* one warning, one link.
C18_Witness ==
    /\ MergeReturned
    /\ Len(documents) = 1
    /\ Len(In) = 1
    /\ Len(In[1].annots) = 2
    /\ In[1].annots[1].uri = PageURI(0)
    /\ In[1].annots[2].uri = PageURI(1)
    /\ Len(LinkWarnings) = 1
    /\ Len(Out[1].annots) = 1
    /\ Out[1].annots[1].rect = In[1].annots[2].rect

\* C19: every internal link of a source page is consumed exactly once: in
\* the returned document there is at most one link for it, and the internal
\* links of the sources are as many as the resolved links of the returned
\* document and the warnings of the resolution loop together.
C19_ConsumedOnce ==
    MergeReturned =>
        /\ \A mq \in InInternalLinks :
               Copies(In[mq[1]].content, In[mq[1]].annots[mq[2]]) =< 1
        /\ Cardinality(InInternalLinks) =
               Cardinality(OutPageLinks) + Len(LinkWarnings)

\* C20: the annotation filter copies no Link annotation and the links of
\* the returned document are those the link component wrote: no two links
\* of a page have the same rectangle, and a link with a page reference is
\* bound to a page by the resolution loop and its URI holds the remapped
\* page number, not the one of the source link.
C20_LinksOwned ==
    MergeReturned =>
        \A n \in 1..Len(Out) : \A j \in 1..Len(Out[n].annots) :
            LET a == Out[n].annots[j] IN
            IsLink(a) =>
                /\ \A j2 \in 1..Len(Out[n].annots) :
                       (IsLink(Out[n].annots[j2]) /\ Out[n].annots[j2].rect = a.rect)
                           => j2 = j
                /\ HasPageRef(a.uri) =>
                       /\ a.dest # NoDest
                       /\ \A s \in Originals(Out[n], a) : a.uri.page # s.uri.page

\* A page with a form widget and a link to itself: the returned page has
\* the widget and one link, written by the resolution loop.
C20_Witness ==
    /\ MergeReturned
    /\ ScratchRemoved
    /\ Len(In) = 1
    /\ Len(In[1].annots) = 2
    /\ In[1].annots[1].uri = PageURI(1)
    /\ IsWidget(In[1].annots[2])
    /\ Len(Out[1].annots) = 2
    /\ IsWidget(Out[1].annots[1])
    /\ Out[1].annots[2].dest = <<0, 0>>
    /\ Out[1].annots[2].uri = PageURI(2)

\* An entry of Annots the annotation filter takes: an indirect reference to
\* an annotation that is no link.
Taken(a) == IsWidget(a) /\ a.indirect

\* How many non-link annotations of the returned document are on the page
\* grafted from the page of the source entry s, with the rectangle of s.
WidgetCopies(content, s) ==
    LET n == PositionOf(Out, content) IN
    IF n = 0 THEN 0
    ELSE Len(SelectSeq(Out[n].annots, LAMBDA a : IsWidget(a) /\ a.rect = s.rect))

\* The warnings of the annotation filter.
AnnotationWarnings == SelectSeq(warnings, LAMBDA w : w.kind = "annotation")

\* The entries of the source pages the annotation filter came to and whose
\* graft threw, as pairs of the position of the page in the request and of
\* the entry in its Annots array.
FailedAnnotations ==
    {mq \in (1..Len(In)) \X (1..MaxAnnots + 1) :
        /\ mq[2] =< Len(In[mq[1]].annots)
        /\ LinkLoopReached(In[mq[1]], Len(In[mq[1]].annots) + 1)
        /\ Taken(In[mq[1]].annots[mq[2]])
        /\ GraftObjectThrows(In[mq[1]].annots[mq[2]])}

\* C21: a non-link annotation whose copy fails is skipped alone: the merge
\* is never rejected over it, and in the returned document the page it was
\* on is present, carries no copy of it, and carries exactly one copy of
\* every other non-link annotation of the page that the filter takes (of a
\* page whose link loop ended without a throw); each failure is warned of
\* once.
C21_AnnotationIsolated ==
    /\ (op = "merge" /\ pc = "rejected") => error # "graftObject"
    /\ MergeReturned =>
           /\ Len(AnnotationWarnings) = Cardinality(FailedAnnotations)
           /\ \A m \in 1..Len(In) :
                  /\ PositionOf(Out, In[m].content) >= 1
                  /\ LinkLoopReached(In[m], Len(In[m].annots) + 1) =>
                         \A j \in 1..Len(In[m].annots) :
                             LET s == In[m].annots[j] IN
                             Taken(s) =>
                                 WidgetCopies(In[m].content, s) =
                                     (IF GraftObjectThrows(s) THEN 0 ELSE 1)

\* A page with a form widget whose graft throws and one whose graft does
\* not: the merge returned the page with the second widget alone.
C21_Witness ==
    /\ MergeReturned
    /\ ScratchRemoved
    /\ "graftObject" \in faults
    /\ Len(In) = 1
    /\ Len(In[1].annots) = 2
    /\ Taken(In[1].annots[1]) /\ GraftObjectThrows(In[1].annots[1])
    /\ Taken(In[1].annots[2]) /\ ~GraftObjectThrows(In[1].annots[2])
    /\ Len(Out) = 1
    /\ Len(Out[1].annots) = 1
    /\ Out[1].annots[1].rect = In[1].annots[2].rect
    /\ Len(AnnotationWarnings) = 1

\* The link loop of the page threw.
LinkLoopThrew(page) == ~LinkLoopReached(page, Len(page.annots) + 1)

\* The annotation filter puts at least one entry on the copy of the page.
HasTaken(page) ==
    \E j \in 1..Len(page.annots) :
        Taken(page.annots[j]) /\ ~GraftObjectThrows(page.annots[j])

\* C22: a link whose copy fails is skipped alone: the merge is never
\* rejected over it, and in the returned document the page it was on
\* carries one copy of every other link of the page that can be copied (an
\* external link, an internal link to a page of its source; on a page where
\* the annotation filter puts nothing) and one copy of every non-link
\* annotation of the page that the filter takes.
C22_LinkIsolated ==
    /\ (op = "merge" /\ pc = "rejected") => error # "insertLink"
    /\ MergeReturned =>
           \A m \in 1..Len(In) :
               LinkLoopThrew(In[m]) =>
                   \A j \in 1..Len(In[m].annots) :
                       LET s == In[m].annots[j] IN
                       /\ (Taken(s) /\ ~GraftObjectThrows(s)) =>
                              WidgetCopies(In[m].content, s) = 1
                       /\ (/\ IsLink(s)
                           /\ ~InsertLinkThrows(s)
                           /\ IsExternal(s.uri) \/ TargetInRange(In[m].content, s)
                           /\ ~HasTaken(In[m])) =>
                              Copies(In[m].content, s) = 1

\* Every source has been opened, grafted and closed.
AllClosed == \A d \in 1..Len(srcState) : srcState[d] = "closed"

\* The output document holds a link the resolution loop wrote.
InternalWritten ==
    \E n \in 1..Len(mergedDoc.pages) : \E j \in 1..Len(mergedDoc.pages[n].annots) :
        /\ IsLink(mergedDoc.pages[n].annots[j])
        /\ HasPageRef(mergedDoc.pages[n].annots[j].uri)

\* The page of index n of the output document was grafted from page j of
\* source d.
GraftedFrom(n, d, j) ==
    /\ n + 1 =< Len(mergedDoc.pages)
    /\ mergedDoc.pages[n + 1].content = <<d, j>>

\* C23: in mergeDocuments the resolution pass starts only after every source
\* has been opened, fully grafted and closed: while a source is not closed
\* the resolution loop has not advanced and the output document holds no
\* internal link, and from the resolution loop on every source is closed and
\* the mapping table has an entry for every page of the sources; a page
\* mapping and a queued internal link only exist for a page that is in the
\* output document, grafted from the source page they name.
C23_ResolveAfterGraft ==
    op = "merge" =>
        /\ AllClosed \/ (k = 0 /\ ~InternalWritten)
        /\ pc \in {"resolve", "save", "saved", "done"} =>
               (AllClosed /\ Len(pageMappings) = Len(In))
        /\ pc \in {"open", "opening", "page", "hung", "resolve"} =>
               /\ \A n \in 1..Len(pageMappings) :
                      GraftedFrom(pageMappings[n].newPageIndex,
                                  pageMappings[n].docIndex,
                                  pageMappings[n].originalPageIndex)
               /\ \A q \in 1..Len(internalLinks) :
                      \E n \in 1..Len(pageMappings) :
                          /\ pageMappings[n].newPageIndex =
                                 internalLinks[q].newPageIndex
                          /\ \E a \in Originals(
                                 mergedDoc.pages[internalLinks[q].newPageIndex + 1],
                                 [rect |-> internalLinks[q].bounds]) :
                                 a.uri = internalLinks[q].originalURI

\* Two sources, a link on the first page of the first one: it is written
\* once both sources are closed.
C23_Witness ==
    /\ op = "merge"
    /\ pc = "resolve"
    /\ k = 1
    /\ Len(documents) = 2
    /\ srcState = <<"closed", "closed">>
    /\ internalLinks[1].newPageIndex = 1
    /\ InternalWritten
    /\ Len(pageMappings) = Len(In)

\* The pages of the output document that were grafted from a source.
GraftedPages ==
    SelectSeq(mergedDoc.pages, LAMBDA page : page.content # BlankContent)

\* C24: at every point of mergeDocuments the page-mapping table has exactly
\* one entry per page grafted so far, in graft order (entry n names the n-th
\* page of the sources); its newPageIndex values are pairwise distinct and go
\* up by one from entry to entry, and its (docIndex, originalPageIndex) pairs
\* are pairwise distinct.
C24_MappingTable ==
    op = "merge" =>
        LET grafted == GraftedPages
            sources == In
        IN
        /\ Len(pageMappings) = Len(grafted)
        /\ \A n \in 1..Len(pageMappings) :
               /\ grafted[n].content =
                      <<pageMappings[n].docIndex, pageMappings[n].originalPageIndex>>
               /\ sources[n].content = grafted[n].content
               /\ n > 1 => pageMappings[n].newPageIndex =
                               pageMappings[n - 1].newPageIndex + 1
        /\ \A n, m \in 1..Len(pageMappings) :
               n # m =>
                   /\ pageMappings[n].newPageIndex # pageMappings[m].newPageIndex
                   /\ <<pageMappings[n].docIndex, pageMappings[n].originalPageIndex>>
                          # <<pageMappings[m].docIndex,
                              pageMappings[m].originalPageIndex>>

\* The first page of the second source has just been grafted, after the
\* two pages of the first source.
C24_Witness ==
    /\ op = "merge"
    /\ pc = "page"
    /\ docIndex = 1
    /\ i = 1
    /\ Len(pageMappings) = 3
    /\ pageMappings[3] =
           [docIndex |-> 1, originalPageIndex |-> 0, newPageIndex |-> 3]
    /\ pageMappings[2] =
           [docIndex |-> 0, originalPageIndex |-> 1, newPageIndex |-> 2]

\* C25: once mergeDocuments has returned or thrown, no source document it
\* opened is still open, whatever the exit: a buffer returned, a later source
\* that does not open, a graft or a serialization that throws.
C25_SourcesClosed ==
    (op = "merge" /\ pc \in {"done", "rejected"}) =>
        \A d \in 1..Len(srcState) : srcState[d] # "open"

\* C26: once rotateDocument has returned or thrown, the document it opened
\* is not open any more, whatever the exit: a buffer returned, a rotation or
\* a serialization that throws.
C26_RotateReleases ==
    (op = "rotate" /\ pc \in {"done", "rejected"}) => doc.state # "open"

\* C27: a document a call of the worker has opened (a source of
\* mergeDocuments, the document of renderFirstPage or of rotateDocument) was
\* opened through withTimeout: the guard of the call has been armed.
C27_OpensGuarded ==
    /\ op = "merge" =>
           \A d \in 1..Len(srcState) :
               srcState[d] # "unopened" => guard.timer # "none"
    /\ op = "render" => (doc # NoDocument => guard.timer # "none")
    /\ op = "rotate" => (doc # NoDocument => guard.timer # "none")

\* The sources whose handle is open.
OpenSources == {d \in 1..Len(srcState) : srcState[d] = "open"}

\* C28: during mergeDocuments at most one source document is open at any
\* time: when a source is open every source before it has been closed, by
\* one call of destroy(), and no source after it has been opened; the pages
\* are grafted from a source that is open and has not been destroyed; and a
\* source is closed by exactly one call of destroy().
C28_OneSourceOpen ==
    op = "merge" =>
        /\ Cardinality(OpenSources) =< 1
        /\ \A d \in OpenSources :
               /\ \A e \in 1..(d - 1) : srcState[e] = "closed"
               /\ \A e \in (d + 1)..Len(srcState) : srcState[e] = "unopened"
        /\ pc = "page" =>
               /\ srcState[docIndex + 1] = "open"
               /\ TimesDestroyed(SrcHandle(docIndex)) = 0
        /\ pc = "open" => OpenSources = {}
        /\ pc = "opening" => OpenSources \subseteq {docIndex + 1}
        /\ \A d \in 1..Len(srcState) :
               TimesDestroyed(SrcHandle(d - 1)) =
                   (IF srcState[d] = "closed" THEN 1 ELSE 0)

\* The second source is open and a page of it has been grafted; the first
\* one was closed before.
C28_Witness ==
    /\ op = "merge"
    /\ pc = "page"
    /\ docIndex = 1
    /\ i = 1
    /\ srcState = <<"closed", "open">>
    /\ destroyed = <<SrcHandle(0)>>

\* The output document has fewer pages after the step than before.
PageRemoved == Len(mergedDoc'.pages) < Len(mergedDoc.pages)

\* The step is the cleanup and removes the scratch page, and nothing else.
ScratchPageRemoved ==
    /\ pc = "resolve"
    /\ k = Len(internalLinks)
    /\ pc' = "save"
    /\ mergedDoc.pages[1] = BlankPage
    /\ mergedDoc'.pages = Tail(mergedDoc.pages)

\* What holds of the pages of the output document in every state of a
\* merge: the scratch page is the only page that was not grafted, every
\* page of the sources is in the document returned, and when the text
\* extraction threw the scratch page leads the document, which is saved and
\* returned all the same.
PagesKept ==
    op = "merge" =>
        /\ Len(mergedDoc.pages) - Len(GraftedPages) \in {0, 1}
        /\ MergeReturned =>
               /\ \A m \in 1..Len(In) : PositionOf(Out, In[m].content) >= 1
               /\ Len(Out) = Len(In) + (IF "getText" \in faults THEN 1 ELSE 0)
        /\ ("getText" \in faults /\ pc \in {"save", "saved", "done"}) =>
               (mergedDoc.pages[1] = BlankPage /\ error = "")
        /\ pc = "rejected" =>
               error \in {"No documents to merge"} \cup FatalPrimitives

\* C29: the only step of mergeDocuments that takes a page out of the output
\* document is the final cleanup, it takes out one page, and that page is
\* the scratch page created with the blank document, never a page grafted
\* from a source, also when the first source page has no text; when the text
\* extraction of page 0 throws, the page is kept and the merge still returns.
C29_ScratchOnly ==
    /\ []PagesKept
    /\ [][(op = "merge" /\ op' = "merge"
            /\ pc \in {"open", "opening", "page", "resolve", "save", "saved"}
            /\ PageRemoved)
              => ScratchPageRemoved]_vars

\* The only page of the only source has no text: the returned document is
\* that page, the scratch page is gone.
C29_Witness ==
    /\ MergeReturned
    /\ ScratchRemoved
    /\ Len(In) = 1
    /\ ~In[1].text
    /\ Len(Out) = 1
    /\ Out[1].content = <<0, 0>>
    /\ Len(mergedDoc.pages) = 1

\* mergeDocuments(docs) run alone, from the source of index d on.
RECURSIVE GraftAll(_, _, _)
GraftAll(frame, docs, d) ==
    IF d >= Len(docs) THEN frame
    ELSE GraftAll(GraftSource(frame, docs[d + 1], d, 0), docs, d + 1)

\* What the call returns when it is the only call of the worker.
RunAlone(call) ==
    CASE call.op = "merge" ->
           LET f == GraftAll([NoFrame EXCEPT !.pages = CreateBlankDocument.pages],
                             call.input, 0)
           IN SaveToBuffer(RemoveBlank(ResolveAll(f.pages, f.pageMappings,
                                                  f.internalLinks)))
      [] call.op = "rotate" -> SaveToBuffer(RotateAll(call.input[1].pages))
      [] OTHER -> RenderPage(call.input[1].pages[1])

\* Every call that has returned returned what it returns when run alone.
SameAsAlone ==
    \A c \in Calls :
        calls[c].pc = "done" => calls[c].result = <<RunAlone(calls[c])>>

\* A step that is no step of call c leaves the locals of call c as they are.
LocalsUntouched ==
    \A c \in Calls :
        (calls'[c].pc = calls[c].pc /\ calls'[c].docIndex = calls[c].docIndex
         /\ calls'[c].input = calls[c].input /\ calls'[c].op = calls[c].op)
            => frames'[c] = frames[c]

\* A call that starts finds empty tables, whatever the calls before it left.
StartsAfresh ==
    \A c \in Calls :
        (~InFlight(calls[c]) /\ InFlight(calls'[c])) =>
            (frames'[c].pageMappings = <<>> /\ frames'[c].internalLinks = <<>>)

\* C30: calls on one worker share no document state: whatever the order in
\* which calls of mergeDocuments, renderFirstPage and rotateDocument take
\* turns at their awaits, each returns what it returns when run alone; the
\* output document, the page mappings and the pending links of a call only
\* change in a step of that call; and a call starts with empty tables,
\* whatever the calls before it left.
C30_CallsIsolated ==
    /\ []SameAsAlone
    /\ [][LocalsUntouched /\ StartsAfresh]_vars

\* Two merges of different lists of files were in flight together, and
\* both have returned.
C30_Witness ==
    /\ calls[1].op = "merge" /\ calls[2].op = "merge"
    /\ calls[1].pc = "done" /\ calls[2].pc = "done"
    /\ calls[1].mixed /\ calls[2].mixed
    /\ Len(calls[1].input) = 2
    /\ calls[1].input # calls[2].input
    /\ Len(calls[1].result[1].pages) = 3
    /\ calls[1].result[1].pages[3].annots # <<>>

====
